---- MODULE Spec2Model ----
(***************************************************************************)
(* The client-side stores of the research tutor front end (Zustand stores  *)
(* over one axios gateway), as a state machine.                            *)
(*                                                                         *)
(* JavaScript runs every handler to completion: an async action is cut at  *)
(* each `await` of a network call into one action for the synchronous      *)
(* part that issues the request and one action per way the response can    *)
(* come back.  Requests awaiting their response are the bag `net`.         *)
(* The backend is a black box: a response is any value of its type.        *)
(***************************************************************************)
EXTENDS Integers, Sequences, FiniteSets, Bags, TLC

VARIABLES
    auth,           \* useAuthStore state: user, isAuthenticated, isLoading
    chat,           \* useChatStore state: chats, currentChat, messages, isLoading, error
    doc,            \* useDocumentStore state: documents, selectedDocuments,
                    \* currentDocument, isLoading, error
    token,          \* localStorage['access_token']
    location,       \* window.location.href
    net,            \* bag of gateway calls awaiting their response
    rejection,      \* the rejection on its way from the response interceptor to
                    \* the caller's catch; the value handed to handleError
    logoutPending,  \* logout() calls suspended at `await apiService.logout()`
    nextUuid,       \* number of crypto.randomUUID() values drawn so far
    lastMe,         \* history: outcome of the most recent GET /api/auth/me
    fetchOrder,     \* history: chat ids of the pending fetchChat calls, oldest first
    latestFetch,    \* history: what became of the fetchChat call issued last
    toggles,        \* history: toggleDocumentSelection calls so far, per id
    ev              \* history: the handler step that produced this state

vars == <<auth, chat, doc, token, location, net, rejection, logoutPending,
          nextUuid, lastMe, fetchOrder, latestFetch, toggles, ev>>

-----------------------------------------------------------------------------
(* Bounds of the model *)

\* gateway calls that may await their response at the same time
MaxInflight == 2
\* logout() calls that may be suspended at their await at the same time
MaxLogout == 1
\* sendMessage calls that get past the 'No active chat' check in one run
\* of the whole Chat store
MaxSends == 1
\* the same, in a run of sendMessage calls alone
MaxSendsAlone == 3

\* toggleDocumentSelection calls per document id in one run
MaxToggles == 3

-----------------------------------------------------------------------------
(* Values *)

\* null / undefined, for a field that otherwise holds an object
Null == [null |-> TRUE]
\* null, for a field that otherwise holds a string
NullString == "null"

\* User records returned by GET /api/auth/me, reduced to their key
Users == {[id |-> "u1"], [id |-> "u2"]}

\* access_token values returned by POST /api/auth/login
Tokens == {"t1", "t2"}

\* Chat records, reduced to their key
ChatIds == {"c1", "c2"}
Chat(id) == [id |-> id]
Chats == {Chat(id) : id \in ChatIds}

\* crypto.randomUUID(): the n-th value drawn, all distinct
Uuids == <<"uuid-1", "uuid-2", "uuid-3", "uuid-4">>
\* message_id of the reply to the n-th message sent: assigned by the server,
\* distinct from every other id
ReplyIds == <<"reply-1", "reply-2", "reply-3", "reply-4">>

\* Message records, reduced to id, chat_id and role
Message(id, chat_id, role) == [id |-> id, chat_id |-> chat_id, role |-> role]

\* The transcripts GET /api/chats/{id} may return for chat `id`: every message
\* of a chat carries that chat's id
Transcripts(id) ==
    { <<>>, <<Message("m1", id, "user")>> }

\* The lists GET /api/chats may return
ChatLists == { <<>>, <<Chat("c1")>>, <<Chat("c2"), Chat("c1")>> }

\* undefined, for a property that otherwise holds a string
Undefined == "undefined"

\* What a rejected gateway call rejects with.
\*   axios:  axios.isAxiosError(error)
\*   status: error.response.status; 0 when error.response is undefined
\*   data:   what error.response.data is: "undefined", "text" (a body that is
\*           not JSON) or "object"
\*   detail: error.response.data.detail (ErrorResponse.detail)
NetworkError ==
    [axios |-> TRUE, status |-> 0, data |-> "undefined", detail |-> Undefined]
Http401 ==
    [axios |-> TRUE, status |-> 401, data |-> "object", detail |-> "Not authenticated"]
Http422 ==
    [axios |-> TRUE, status |-> 422, data |-> "object", detail |-> "Invalid request"]
Http500 ==
    [axios |-> TRUE, status |-> 500, data |-> "text", detail |-> Undefined]
Failures == {NetworkError, Http401, Http422, Http500}
\* The failure the Chat store's calls are answered with here: the one with
\* both a detail for handleError and the interceptor's side effect
ChatFailures == {Http401}

\* The failures the Document store's calls are answered with here: one with
\* no response and the one with the interceptor's side effect
DocFailures == {NetworkError, Http401}

\* Document ids, and Document records reduced to their key
DocumentIds == {"d1", "d2", "d3"}
Document(id) == [id |-> id]

\* no toggleDocumentSelection call yet
NoToggles == [id \in DocumentIds |-> 0]

-----------------------------------------------------------------------------
(* API gateway *)

\* The interceptor, had it cleared the token and left the page where it is
InterceptorNoRedirect(f) ==
    /\ token' = IF f.status = 401 THEN NullString ELSE token
    /\ location' = location

\* The response interceptor's error branch: a 401 clears the token and
\* navigates to /login, then the rejection goes on to the caller.
Interceptor(f) ==
    /\ token' = IF f.status = 401 THEN NullString ELSE token
    /\ location' = IF f.status = 401 THEN "/login" ELSE location

isAuthenticated == token # NullString /\ token # ""

\* The values a catch block can hand to handleError: axios errors with no
\* response, with a response without a body, with a body that is not an
\* object, with a body without detail, with an empty and with a real detail;
\* and values that are no axios errors, whatever properties they have
StatusCodes == {400, 401, 404, 422, 500}
Details == {Undefined, "", "Not authenticated", "Invalid request"}
FailureValues ==
    { f \in [axios : BOOLEAN, status : {0} \cup StatusCodes,
             data : {"undefined", "text", "object"}, detail : Details] :
        /\ f.status = 0 => f.data = "undefined"
        /\ f.data # "object" => f.detail = Undefined }

\* a TypeError thrown out of handleError
TypeError == "TypeError"

\* handleError, had it read error.response.data.detail without `?.`
handleErrorUnchained(error) ==
    IF error.axios
    THEN IF error.status = 0 \/ error.data = "undefined"
         THEN TypeError
         ELSE IF error.data = "object" /\ error.detail \notin {Undefined, ""}
              THEN error.detail
              ELSE "An error occurred"
    ELSE "An unexpected error occurred"

\* error.response?.data?.detail
ResponseDetail(error) ==
    IF error.status # 0 /\ error.data = "object" THEN error.detail ELSE Undefined

\* handleError: the server's detail when the failure is an axios error whose
\* response body has a truthy one
handleError(error) ==
    IF error.axios
    THEN IF ResponseDetail(error) \notin {Undefined, ""}
         THEN ResponseDetail(error)
         ELSE "An error occurred"
    ELSE "An unexpected error occurred"

Issue(r) == net (+) SetToBag({r})
Settle(r) == net (-) SetToBag({r})
Pending(r) == BagIn(r, net)
CanIssue == BagCardinality(net) < MaxInflight

\* A network response is delivered in a task of its own; the continuation of
\* `await apiService.logout()` (an already settled promise) runs in the
\* microtask checkpoint of the task that called logout, so before any response.
CanDeliver == logoutPending = 0

-----------------------------------------------------------------------------
(* Auth store *)

AuthInitial == [user |-> Null, isAuthenticated |-> FALSE, isLoading |-> FALSE]
ChatInitial == [chats |-> <<>>, currentChat |-> Null, messages |-> <<>>,
                isLoading |-> FALSE, error |-> NullString]

DocInitial == [documents |-> <<>>, selectedDocuments |-> <<>>,
               currentDocument |-> Null, isLoading |-> FALSE, error |-> NullString]

AuthFrame ==
    UNCHANGED <<chat, doc, rejection, nextUuid, fetchOrder, latestFetch, toggles>>

\* setUser, had it set the user and left the flag
SetUserKeepsFlag(user) ==
    /\ auth' = [auth EXCEPT !.user = user]
    /\ ev' = [op |-> "setUser"]
    /\ UNCHANGED <<token, location, net, logoutPending, lastMe>>
    /\ AuthFrame

SetUser(user) ==
    /\ auth' = [auth EXCEPT !.user = user, !.isAuthenticated = (user # Null)]
    /\ ev' = [op |-> "setUser"]
    /\ UNCHANGED <<token, location, net, logoutPending, lastMe>>
    /\ AuthFrame

LoginReq(step) == [op |-> "login", step |-> step]

\* login, up to the POST /api/auth/login request
Login ==
    /\ CanIssue
    /\ auth' = [auth EXCEPT !.isLoading = TRUE]
    /\ net' = Issue(LoginReq("post"))
    /\ ev' = [op |-> "login"]
    /\ UNCHANGED <<token, location, logoutPending, lastMe>>
    /\ AuthFrame

\* the POST succeeded: the gateway stores the token, the store goes on to
\* GET /api/auth/me
LoginPostOk(access_token) ==
    /\ CanDeliver
    /\ Pending(LoginReq("post"))
    /\ token' = access_token
    /\ net' = Settle(LoginReq("post")) (+) SetToBag({LoginReq("me")})
    /\ ev' = [op |-> "loginPostOk"]
    /\ UNCHANGED <<auth, location, logoutPending, lastMe>>
    /\ AuthFrame

\* either request of login failed: the catch block
LoginFail(step, f) ==
    /\ CanDeliver
    /\ Pending(LoginReq(step))
    /\ Interceptor(f)
    /\ auth' = [auth EXCEPT !.isLoading = FALSE]
    /\ net' = Settle(LoginReq(step))
    /\ lastMe' = IF step = "me" THEN "failed" ELSE lastMe
    /\ ev' = [op |-> "loginFail", step |-> step, rejected |-> TRUE, failure |-> f]
    /\ UNCHANGED <<logoutPending>>
    /\ AuthFrame

\* GET /api/auth/me of login succeeded
LoginMeOk(user) ==
    /\ CanDeliver
    /\ Pending(LoginReq("me"))
    /\ auth' = [user |-> user, isAuthenticated |-> TRUE, isLoading |-> FALSE]
    /\ net' = Settle(LoginReq("me"))
    /\ lastMe' = "ok"
    /\ ev' = [op |-> "loginOk", user |-> user]
    /\ UNCHANGED <<token, location, logoutPending>>
    /\ AuthFrame

\* logout, up to `await apiService.logout()`: the gateway has cleared the token
Logout ==
    /\ logoutPending < MaxLogout
    /\ token' = NullString
    /\ logoutPending' = logoutPending + 1
    /\ ev' = [op |-> "logout"]
    /\ UNCHANGED <<auth, location, net, lastMe>>
    /\ AuthFrame

\* logout after its await, resetting the user and forgetting the flag
LogoutSettleKeepsFlag ==
    /\ logoutPending > 0
    /\ auth' = [auth EXCEPT !.user = Null]
    /\ logoutPending' = logoutPending - 1
    /\ ev' = [op |-> "logoutSettled", rejected |-> FALSE]
    /\ UNCHANGED <<token, location, net, lastMe>>
    /\ AuthFrame

\* logout after its await
LogoutSettle ==
    /\ logoutPending > 0
    /\ auth' = [auth EXCEPT !.user = Null, !.isAuthenticated = FALSE]
    /\ logoutPending' = logoutPending - 1
    /\ ev' = [op |-> "logoutSettled", rejected |-> FALSE]
    /\ UNCHANGED <<token, location, net, lastMe>>
    /\ AuthFrame

MeReq == [op |-> "fetchCurrentUser"]

\* fetchCurrentUser, up to its request (or its early return with no token)
FetchCurrentUser ==
    /\ IF ~isAuthenticated
       THEN /\ auth' = [auth EXCEPT !.user = Null, !.isAuthenticated = FALSE]
            /\ net' = net
            /\ ev' = [op |-> "fetchCurrentUser", request |-> FALSE]
       ELSE /\ CanIssue
            /\ auth' = [auth EXCEPT !.isLoading = TRUE]
            /\ net' = Issue(MeReq)
            /\ ev' = [op |-> "fetchCurrentUser", request |-> TRUE]
    /\ UNCHANGED <<token, location, logoutPending, lastMe>>
    /\ AuthFrame

FetchCurrentUserOk(user) ==
    /\ CanDeliver
    /\ Pending(MeReq)
    /\ auth' = [user |-> user, isAuthenticated |-> TRUE, isLoading |-> FALSE]
    /\ net' = Settle(MeReq)
    /\ lastMe' = "ok"
    /\ ev' = [op |-> "fetchCurrentUserOk", user |-> user]
    /\ UNCHANGED <<token, location, logoutPending>>
    /\ AuthFrame

\* the catch block of fetchCurrentUser, had it been the one of login
FetchCurrentUserFailKeepsUser(f) ==
    /\ CanDeliver
    /\ Pending(MeReq)
    /\ Interceptor(f)
    /\ auth' = [auth EXCEPT !.isLoading = FALSE]
    /\ net' = Settle(MeReq)
    /\ lastMe' = "failed"
    /\ ev' = [op |-> "fetchCurrentUserFail", rejected |-> TRUE]
    /\ UNCHANGED <<logoutPending>>
    /\ AuthFrame

FetchCurrentUserFail(f) ==
    /\ CanDeliver
    /\ Pending(MeReq)
    /\ Interceptor(f)
    /\ auth' = [user |-> Null, isAuthenticated |-> FALSE, isLoading |-> FALSE]
    /\ net' = Settle(MeReq)
    /\ lastMe' = "failed"
    /\ ev' = [op |-> "fetchCurrentUserFail", rejected |-> FALSE]
    /\ UNCHANGED <<logoutPending>>
    /\ AuthFrame

\* A call of another store (chats, documents) is answered 401: the
\* interceptor runs, the Auth store is not told.
Unauthorized ==
    /\ CanDeliver
    /\ Interceptor(Http401)
    /\ ev' = [op |-> "unauthorized"]
    /\ UNCHANGED <<auth, net, logoutPending, lastMe>>
    /\ AuthFrame

\* The persist middleware restores `user` alone (partialize) at construction;
\* the token is whatever an earlier session left in localStorage.
InitAuth ==
    /\ auth \in {[AuthInitial EXCEPT !.user = u] : u \in Users \cup {Null}}
    /\ chat = ChatInitial
    /\ doc = DocInitial
    /\ rejection = Null
    /\ toggles = NoToggles
    /\ token \in Tokens \cup {NullString}
    /\ location = "/"
    /\ net = EmptyBag
    /\ logoutPending = 0
    /\ nextUuid = 0
    /\ lastMe = "none"
    /\ fetchOrder = <<>>
    /\ latestFetch = "none"
    /\ ev = [op |-> "init"]

NextAuth ==
    \/ \E user \in Users \cup {Null} : SetUser(user)
    \/ Login
    \/ \E access_token \in Tokens : LoginPostOk(access_token)
    \/ \E step \in {"post", "me"}, f \in Failures : LoginFail(step, f)
    \/ \E user \in Users : LoginMeOk(user)
    \/ Logout
    \/ LogoutSettle
    \/ FetchCurrentUser
    \/ \E user \in Users : FetchCurrentUserOk(user)
    \/ \E f \in Failures : FetchCurrentUserFail(f)
    \/ Unauthorized

SpecAuth == InitAuth /\ [][NextAuth]_vars

\* The page is loaded anew: the store is constructed again and the persist
\* middleware restores `user`, the one field partialize writes out on every
\* set; the token stays in localStorage; the calls that were pending and
\* the suspended logout are gone with the old page.
Restart ==
    /\ auth' = [AuthInitial EXCEPT !.user = auth.user]
    /\ net' = EmptyBag
    /\ logoutPending' = 0
    /\ ev' = [op |-> "restart"]
    /\ UNCHANGED <<token, location, lastMe>>
    /\ AuthFrame

\* The Auth store over sessions
NextSession ==
    \/ NextAuth
    \/ Restart

SpecSession == InitAuth /\ [][NextSession]_vars

-----------------------------------------------------------------------------
(* Chat store *)

\* What no Chat store action touches
ChatFrame == UNCHANGED <<auth, doc, rejection, logoutPending, lastMe, toggles>>
\* The history of fetchChat calls, for the actions that are not fetchChat's
NoFetch == UNCHANGED <<fetchOrder, latestFetch>>

Range(seq) == {seq[i] : i \in 1..Len(seq)}

SetChats(chats) ==
    /\ chat' = [chat EXCEPT !.chats = chats]
    /\ ev' = [op |-> "call"]
    /\ UNCHANGED <<token, location, net, nextUuid>>
    /\ ChatFrame /\ NoFetch

SetCurrentChat(c) ==
    /\ chat' = [chat EXCEPT !.currentChat = c]
    /\ ev' = [op |-> "call"]
    /\ UNCHANGED <<token, location, net, nextUuid>>
    /\ ChatFrame /\ NoFetch

SetMessages(messages) ==
    /\ chat' = [chat EXCEPT !.messages = messages]
    /\ ev' = [op |-> "call"]
    /\ UNCHANGED <<token, location, net, nextUuid>>
    /\ ChatFrame /\ NoFetch

\* addMessage, had it put the message in front
addMessagePrepends(state, message) ==
    [state EXCEPT !.messages = <<message>> \o @]

\* the state update of addMessage
addMessage(state, message) ==
    [state EXCEPT !.messages = Append(@, message)]

\* The first statement of every async action but sendMessage
StartLoading == [chat EXCEPT !.isLoading = TRUE, !.error = NullString]

\* The catch block, had it rolled the last message back
CaughtRollback(f) ==
    [chat EXCEPT !.error = handleError(f), !.isLoading = FALSE,
                 !.messages = SubSeq(@, 1, Len(@) - 1)]

\* The catch block of every async action
Caught(f) == [chat EXCEPT !.error = handleError(f), !.isLoading = FALSE]

FetchChatsReq == [op |-> "fetchChats"]

FetchChats ==
    /\ CanIssue
    /\ chat' = StartLoading
    /\ net' = Issue(FetchChatsReq)
    /\ ev' = [op |-> "call"]
    /\ UNCHANGED <<token, location, nextUuid>>
    /\ ChatFrame /\ NoFetch

FetchChatsOk(chats) ==
    /\ CanDeliver
    /\ Pending(FetchChatsReq)
    /\ chat' = [chat EXCEPT !.chats = chats, !.isLoading = FALSE]
    /\ net' = Settle(FetchChatsReq)
    /\ ev' = [op |-> "fetchChatsOk"]
    /\ UNCHANGED <<token, location, nextUuid>>
    /\ ChatFrame /\ NoFetch

FetchChatsFail(f) ==
    /\ CanDeliver
    /\ Pending(FetchChatsReq)
    /\ Interceptor(f)
    /\ chat' = Caught(f)
    /\ net' = Settle(FetchChatsReq)
    /\ ev' = [op |-> "fetchChatsFail", rejected |-> FALSE, failure |-> f]
    /\ UNCHANGED <<nextUuid>>
    /\ ChatFrame /\ NoFetch

FetchChatReq(chatId) == [op |-> "fetchChat", chatId |-> chatId]

\* fetchChat, up to its request
FetchChat(chatId) ==
    /\ CanIssue
    /\ chat' = StartLoading
    /\ net' = Issue(FetchChatReq(chatId))
    /\ ev' = [op |-> "call"]
    /\ UNCHANGED <<token, location, nextUuid>>
    /\ ChatFrame

\* fetchChat on success, had it set currentChat alone and left `messages` to
\* a later update
FetchChatApplyChatOnly(chatId, messages) ==
    [chat EXCEPT !.currentChat = Chat(chatId), !.isLoading = FALSE]

\* the state update of fetchChat on success, from the one response
FetchChatApply(chatId, messages) ==
    [chat EXCEPT !.currentChat = Chat(chatId),
                 !.messages = messages,
                 !.isLoading = FALSE]

FetchChatOk(chatId, messages) ==
    /\ CanDeliver
    /\ Pending(FetchChatReq(chatId))
    /\ chat' = FetchChatApply(chatId, messages)
    /\ net' = Settle(FetchChatReq(chatId))
    /\ ev' = [op |-> "fetchChatOk", chatId |-> chatId, messages |-> messages]
    /\ UNCHANGED <<token, location, nextUuid>>
    /\ ChatFrame

FetchChatFail(chatId, f) ==
    /\ CanDeliver
    /\ Pending(FetchChatReq(chatId))
    /\ Interceptor(f)
    /\ chat' = Caught(f)
    /\ net' = Settle(FetchChatReq(chatId))
    /\ ev' = [op |-> "fetchChatFail", rejected |-> FALSE, failure |-> f]
    /\ UNCHANGED <<nextUuid>>
    /\ ChatFrame

CreateChatReq == [op |-> "createNewChat"]

CreateNewChat ==
    /\ CanIssue
    /\ chat' = StartLoading
    /\ net' = Issue(CreateChatReq)
    /\ ev' = [op |-> "call"]
    /\ UNCHANGED <<token, location, nextUuid>>
    /\ ChatFrame /\ NoFetch

\* createNewChat on success, had it put the new chat at the end of the list
CreateNewChatOkAppends(c) ==
    /\ CanDeliver
    /\ Pending(CreateChatReq)
    /\ c \notin Range(chat.chats)
    /\ chat' = [chat EXCEPT !.chats = Append(@, c),
                            !.currentChat = c,
                            !.messages = <<>>,
                            !.isLoading = FALSE]
    /\ net' = Settle(CreateChatReq)
    /\ ev' = [op |-> "createNewChatOk", returned |-> c]
    /\ UNCHANGED <<token, location, nextUuid>>
    /\ ChatFrame /\ NoFetch

\* The server assigns the new chat an id that no listed chat has.
CreateNewChatOk(c) ==
    /\ CanDeliver
    /\ Pending(CreateChatReq)
    /\ c \notin Range(chat.chats)
    /\ chat' = [chat EXCEPT !.chats = <<c>> \o @,
                            !.currentChat = c,
                            !.messages = <<>>,
                            !.isLoading = FALSE]
    /\ net' = Settle(CreateChatReq)
    /\ ev' = [op |-> "createNewChatOk", returned |-> c]
    /\ UNCHANGED <<token, location, nextUuid>>
    /\ ChatFrame /\ NoFetch

CreateNewChatFail(f) ==
    /\ CanDeliver
    /\ Pending(CreateChatReq)
    /\ Interceptor(f)
    /\ chat' = Caught(f)
    /\ net' = Settle(CreateChatReq)
    /\ ev' = [op |-> "createNewChatFail", rejected |-> TRUE, failure |-> f]
    /\ UNCHANGED <<nextUuid>>
    /\ ChatFrame /\ NoFetch

DeleteChatReq(chatId) == [op |-> "deleteChat", chatId |-> chatId]

DeleteChat(chatId) ==
    /\ CanIssue
    /\ chat' = StartLoading
    /\ net' = Issue(DeleteChatReq(chatId))
    /\ ev' = [op |-> "call"]
    /\ UNCHANGED <<token, location, nextUuid>>
    /\ ChatFrame /\ NoFetch

\* state.currentChat?.id === chatId
IsCurrent(chatId) == chat.currentChat # Null /\ chat.currentChat.id = chatId

\* deleteChat on success, had it cleared currentChat and left `messages`
DeleteChatOkKeepsMessages(chatId) ==
    /\ CanDeliver
    /\ Pending(DeleteChatReq(chatId))
    /\ chat' = [chat EXCEPT
                  !.chats = SelectSeq(@, LAMBDA c : c.id # chatId),
                  !.currentChat = IF IsCurrent(chatId) THEN Null ELSE @,
                  !.isLoading = FALSE]
    /\ net' = Settle(DeleteChatReq(chatId))
    /\ ev' = [op |-> "deleteChatOk", chatId |-> chatId,
              wasCurrent |-> IsCurrent(chatId)]
    /\ UNCHANGED <<token, location, nextUuid>>
    /\ ChatFrame /\ NoFetch

DeleteChatOk(chatId) ==
    /\ CanDeliver
    /\ Pending(DeleteChatReq(chatId))
    /\ chat' = [chat EXCEPT
                  !.chats = SelectSeq(@, LAMBDA c : c.id # chatId),
                  !.currentChat = IF IsCurrent(chatId) THEN Null ELSE @,
                  !.messages = IF IsCurrent(chatId) THEN <<>> ELSE @,
                  !.isLoading = FALSE]
    /\ net' = Settle(DeleteChatReq(chatId))
    /\ ev' = [op |-> "deleteChatOk", chatId |-> chatId,
              wasCurrent |-> IsCurrent(chatId)]
    /\ UNCHANGED <<token, location, nextUuid>>
    /\ ChatFrame /\ NoFetch

DeleteChatFail(chatId, f) ==
    /\ CanDeliver
    /\ Pending(DeleteChatReq(chatId))
    /\ Interceptor(f)
    /\ chat' = Caught(f)
    /\ net' = Settle(DeleteChatReq(chatId))
    /\ ev' = [op |-> "deleteChatFail", rejected |-> FALSE, failure |-> f]
    /\ UNCHANGED <<nextUuid>>
    /\ ChatFrame /\ NoFetch

\* A pending sendMessage call: the chat id it captured before its await, and
\* which of the uuids its optimistic message got
SendReq(chatId, n) == [op |-> "sendMessage", chatId |-> chatId, n |-> n]

\* the optimistic user message of the n-th send, and the reply to it
userMessage(chatId, n) == Message(Uuids[n], chatId, "user")
assistantMessage(chatId, n) == Message(ReplyIds[n], chatId, "assistant")

\* sendMessage with no current chat, had the check come after
\* set({ isLoading: true, error: null })
SendMessageNoChatLate ==
    /\ chat' = [chat EXCEPT !.isLoading = TRUE, !.error = NullString]
    /\ net' = net
    /\ nextUuid' = nextUuid
    /\ ev' = [op |-> "sendMessage", thrown |-> "No active chat",
              request |-> FALSE]

\* sendMessage with no current chat: throws before anything else
SendMessageNoChat ==
    /\ chat' = chat
    /\ net' = net
    /\ nextUuid' = nextUuid
    /\ ev' = [op |-> "sendMessage", thrown |-> "No active chat",
              request |-> FALSE]

\* sendMessage with a current chat, up to its request
SendMessageIssue ==
    /\ CanIssue
    /\ nextUuid < Len(Uuids)
    /\ LET n == nextUuid + 1
           chatId == chat.currentChat.id
           appended == addMessage(chat, userMessage(chatId, n))
       IN  /\ chat' = [appended EXCEPT !.isLoading = TRUE, !.error = NullString]
           /\ net' = Issue(SendReq(chatId, n))
           /\ nextUuid' = n
           /\ ev' = [op |-> "sendMessage", thrown |-> NullString,
                     request |-> TRUE, chatId |-> chatId, n |-> n]

SendMessage ==
    /\ IF chat.currentChat = Null THEN SendMessageNoChat ELSE SendMessageIssue
    /\ UNCHANGED <<token, location>>
    /\ ChatFrame /\ NoFetch

\* sendMessage on success, had the reply taken the place of the last message
SendMessageApplyInPlace(r) ==
    [chat EXCEPT
       !.messages = Append(SubSeq(@, 1, Len(@) - 1), assistantMessage(r.chatId, r.n)),
       !.isLoading = FALSE]

\* the state update of sendMessage on success
SendMessageApply(r) ==
    [addMessage(chat, assistantMessage(r.chatId, r.n)) EXCEPT !.isLoading = FALSE]

SendMessageOk(r) ==
    /\ CanDeliver
    /\ Pending(r)
    /\ chat' = SendMessageApply(r)
    /\ net' = Settle(r)
    /\ ev' = [op |-> "sendMessageOk", chatId |-> r.chatId, n |-> r.n,
              rejected |-> FALSE]
    /\ UNCHANGED <<token, location, nextUuid>>
    /\ ChatFrame /\ NoFetch

SendMessageFail(r, f) ==
    /\ CanDeliver
    /\ Pending(r)
    /\ Interceptor(f)
    /\ chat' = Caught(f)
    /\ net' = Settle(r)
    /\ ev' = [op |-> "sendMessageFail", chatId |-> r.chatId, n |-> r.n,
              rejected |-> TRUE, failure |-> f]
    /\ UNCHANGED <<nextUuid>>
    /\ ChatFrame /\ NoFetch

\* The history of fetchChat calls: the order they were issued in, and whether
\* the one issued last has come back.
FetchIssued(chatId) ==
    /\ fetchOrder' = Append(fetchOrder, chatId)
    /\ latestFetch' = "pending"

\* The i-th pending fetchChat call settles; it is the one issued last when it
\* is the youngest of the pending ones and that one has not settled before.
FetchSettled(i, outcome) ==
    /\ fetchOrder' = SubSeq(fetchOrder, 1, i - 1)
                        \o SubSeq(fetchOrder, i + 1, Len(fetchOrder))
    /\ latestFetch' = IF i = Len(fetchOrder) /\ latestFetch = "pending"
                      THEN outcome
                      ELSE latestFetch

InitChat ==
    /\ auth = AuthInitial
    /\ chat = ChatInitial
    /\ doc = DocInitial
    /\ rejection = Null
    /\ toggles = NoToggles
    /\ token = "t1"
    /\ location = "/"
    /\ net = EmptyBag
    /\ logoutPending = 0
    /\ nextUuid = 0
    /\ lastMe = "none"
    /\ fetchOrder = <<>>
    /\ latestFetch = "none"
    /\ ev = [op |-> "init"]

\* the calls of action `op` awaiting their response
Calls(op) == {r \in BagToSet(net) : r.op = op}

\* Every Chat store action but fetchChat and the chat list's
ChatActions ==
    \/ \E c \in Chats \cup {Null} : SetCurrentChat(c)
    \/ \E messages \in Transcripts("c1") : SetMessages(messages)
    \/ CreateNewChat
    \/ \E c \in Chats : CreateNewChatOk(c)
    \/ \E f \in ChatFailures : CreateNewChatFail(f)
    \/ \E chatId \in ChatIds : DeleteChat(chatId)
    \/ \E chatId \in ChatIds : DeleteChatOk(chatId)
    \/ \E chatId \in ChatIds, f \in ChatFailures : DeleteChatFail(chatId, f)
    \/ (chat.currentChat # Null => nextUuid < MaxSends) /\ SendMessage
    \/ \E r \in Calls("sendMessage") : SendMessageOk(r)
    \/ \E r \in Calls("sendMessage"), f \in ChatFailures : SendMessageFail(r, f)

NextChat ==
    \/ ChatActions
    \/ \E chatId \in ChatIds : FetchChat(chatId) /\ NoFetch
    \/ \E chatId \in ChatIds : \E messages \in Transcripts(chatId) :
          FetchChatOk(chatId, messages) /\ NoFetch
    \/ \E chatId \in ChatIds, f \in ChatFailures :
          FetchChatFail(chatId, f) /\ NoFetch

SpecChat == InitChat /\ [][NextChat]_vars

\* The same, with the history of the fetchChat calls kept
NextFetchOrder ==
    \/ ChatActions
    \/ \E chatId \in ChatIds : FetchChat(chatId) /\ FetchIssued(chatId)
    \/ \E i \in DOMAIN fetchOrder : \E messages \in Transcripts(fetchOrder[i]) :
          FetchChatOk(fetchOrder[i], messages) /\ FetchSettled(i, fetchOrder[i])
    \/ \E i \in DOMAIN fetchOrder, f \in ChatFailures :
          FetchChatFail(fetchOrder[i], f) /\ FetchSettled(i, "failed")

SpecFetchOrder == InitChat /\ [][NextFetchOrder]_vars

\* Runs of sendMessage calls alone, on the current chat c1 with the
\* transcript a fetchChat has left
InitSend ==
    /\ auth = AuthInitial
    /\ \E messages \in Transcripts("c1") :
          chat = [ChatInitial EXCEPT !.currentChat = Chat("c1"),
                                     !.messages = messages]
    /\ doc = DocInitial
    /\ token = "t1"
    /\ location = "/"
    /\ net = EmptyBag
    /\ rejection = Null
    /\ logoutPending = 0
    /\ nextUuid = 0
    /\ lastMe = "none"
    /\ fetchOrder = <<>>
    /\ latestFetch = "none"
    /\ toggles = NoToggles
    /\ ev = [op |-> "init"]

NextSend ==
    \/ nextUuid < MaxSendsAlone /\ SendMessage
    \/ \E r \in Calls("sendMessage") : SendMessageOk(r)
    \/ \E r \in Calls("sendMessage"), f \in DocFailures : SendMessageFail(r, f)

SpecSend == InitSend /\ [][NextSend]_vars

-----------------------------------------------------------------------------
(* Document store *)

\* What no Document store action touches
DocFrame ==
    UNCHANGED <<auth, chat, rejection, logoutPending, nextUuid, lastMe,
                fetchOrder, latestFetch>>
\* The count of toggles, for the actions that are not toggleDocumentSelection
NoToggle == UNCHANGED toggles

Documents == {Document(id) : id \in DocumentIds}
\* The lists GET /api/documents may return
DocumentLists ==
    { <<>>, <<Document("d1")>>, <<Document("d2"), Document("d1")>> }
\* The selections a caller hands to setSelectedDocuments
Selections == { <<>>, <<"d2", "d1">> }

SetDocuments(documents) ==
    /\ doc' = [doc EXCEPT !.documents = documents]
    /\ ev' = [op |-> "call"]
    /\ UNCHANGED <<token, location, net>>
    /\ DocFrame /\ NoToggle

SetSelectedDocuments(documentIds) ==
    /\ doc' = [doc EXCEPT !.selectedDocuments = documentIds]
    /\ ev' = [op |-> "call"]
    /\ UNCHANGED <<token, location, net>>
    /\ DocFrame /\ NoToggle

SetCurrentDocument(document) ==
    /\ doc' = [doc EXCEPT !.currentDocument = document]
    /\ ev' = [op |-> "call"]
    /\ UNCHANGED <<token, location, net>>
    /\ DocFrame /\ NoToggle

\* toggleDocumentSelection, had it appended the id whether present or not
toggleAppends(state, documentId) ==
    [state EXCEPT !.selectedDocuments = Append(@, documentId)]

\* the state update of toggleDocumentSelection
toggleDocumentSelection(state, documentId) ==
    [state EXCEPT !.selectedDocuments =
        IF documentId \in Range(@)
        THEN SelectSeq(@, LAMBDA id : id # documentId)
        ELSE Append(@, documentId)]

ToggleDocumentSelection(documentId) ==
    /\ doc' = toggleDocumentSelection(doc, documentId)
    /\ ev' = [op |-> "toggle", documentId |-> documentId]
    /\ UNCHANGED <<token, location, net>>
    /\ DocFrame

\* The first statement of every async action of the Document store
DocStartLoading == [doc EXCEPT !.isLoading = TRUE, !.error = NullString]
\* The catch block, had it dropped the list it could not refresh
DocCaughtResets(f) ==
    [doc EXCEPT !.error = handleError(f), !.isLoading = FALSE,
                !.documents = <<>>]

\* The catch block of every async action of the Document store
DocCaught(f) == [doc EXCEPT !.error = handleError(f), !.isLoading = FALSE]

FetchDocumentsReq == [op |-> "fetchDocuments"]

FetchDocuments ==
    /\ CanIssue
    /\ doc' = DocStartLoading
    /\ net' = Issue(FetchDocumentsReq)
    /\ ev' = [op |-> "call"]
    /\ UNCHANGED <<token, location>>
    /\ DocFrame /\ NoToggle

FetchDocumentsOk(documents) ==
    /\ CanDeliver
    /\ Pending(FetchDocumentsReq)
    /\ doc' = [doc EXCEPT !.documents = documents, !.isLoading = FALSE]
    /\ net' = Settle(FetchDocumentsReq)
    /\ ev' = [op |-> "fetchDocumentsOk"]
    /\ UNCHANGED <<token, location>>
    /\ DocFrame /\ NoToggle

FetchDocumentsFail(f) ==
    /\ CanDeliver
    /\ Pending(FetchDocumentsReq)
    /\ Interceptor(f)
    /\ doc' = DocCaught(f)
    /\ net' = Settle(FetchDocumentsReq)
    /\ ev' = [op |-> "fetchDocumentsFail", rejected |-> FALSE, failure |-> f]
    /\ DocFrame /\ NoToggle

UploadDocumentReq == [op |-> "uploadDocument"]

UploadDocument ==
    /\ CanIssue
    /\ doc' = DocStartLoading
    /\ net' = Issue(UploadDocumentReq)
    /\ ev' = [op |-> "call"]
    /\ UNCHANGED <<token, location>>
    /\ DocFrame /\ NoToggle

\* The server assigns the uploaded document an id that no listed one has.
UploadDocumentOk(document) ==
    /\ CanDeliver
    /\ Pending(UploadDocumentReq)
    /\ document \notin Range(doc.documents)
    /\ doc' = [doc EXCEPT !.documents = <<document>> \o @, !.isLoading = FALSE]
    /\ net' = Settle(UploadDocumentReq)
    /\ ev' = [op |-> "uploadDocumentOk"]
    /\ UNCHANGED <<token, location>>
    /\ DocFrame /\ NoToggle

UploadDocumentFail(f) ==
    /\ CanDeliver
    /\ Pending(UploadDocumentReq)
    /\ Interceptor(f)
    /\ doc' = DocCaught(f)
    /\ net' = Settle(UploadDocumentReq)
    /\ ev' = [op |-> "uploadDocumentFail", rejected |-> TRUE, failure |-> f]
    /\ DocFrame /\ NoToggle

DeleteDocumentReq(documentId) ==
    [op |-> "deleteDocument", documentId |-> documentId]

DeleteDocument(documentId) ==
    /\ CanIssue
    /\ doc' = DocStartLoading
    /\ net' = Issue(DeleteDocumentReq(documentId))
    /\ ev' = [op |-> "call"]
    /\ UNCHANGED <<token, location>>
    /\ DocFrame /\ NoToggle

\* state.currentDocument?.id === documentId
IsCurrentDocument(documentId) ==
    doc.currentDocument # Null /\ doc.currentDocument.id = documentId

\* deleteDocument on success, had it left the selection alone
DeleteDocumentApplyKeepsSelection(documentId) ==
    [doc EXCEPT
       !.documents = SelectSeq(@, LAMBDA d : d.id # documentId),
       !.currentDocument = IF IsCurrentDocument(documentId) THEN Null ELSE @,
       !.isLoading = FALSE]

\* the state update of deleteDocument on success
DeleteDocumentApply(documentId) ==
    [doc EXCEPT
       !.documents = SelectSeq(@, LAMBDA d : d.id # documentId),
       !.selectedDocuments = SelectSeq(@, LAMBDA id : id # documentId),
       !.currentDocument = IF IsCurrentDocument(documentId) THEN Null ELSE @,
       !.isLoading = FALSE]

DeleteDocumentOk(documentId) ==
    /\ CanDeliver
    /\ Pending(DeleteDocumentReq(documentId))
    /\ doc' = DeleteDocumentApply(documentId)
    /\ net' = Settle(DeleteDocumentReq(documentId))
    /\ ev' = [op |-> "deleteDocumentOk", documentId |-> documentId,
              wasCurrent |-> IsCurrentDocument(documentId),
              wasSelected |-> documentId \in Range(doc.selectedDocuments)]
    /\ UNCHANGED <<token, location>>
    /\ DocFrame /\ NoToggle

DeleteDocumentFail(documentId, f) ==
    /\ CanDeliver
    /\ Pending(DeleteDocumentReq(documentId))
    /\ Interceptor(f)
    /\ doc' = DocCaught(f)
    /\ net' = Settle(DeleteDocumentReq(documentId))
    /\ ev' = [op |-> "deleteDocumentFail", rejected |-> FALSE, failure |-> f]
    /\ DocFrame /\ NoToggle

\* The ids the model's callers select and delete
PickedIds == {"d1", "d2"}
InitDocument ==
    /\ auth = AuthInitial
    /\ chat = ChatInitial
    /\ doc = DocInitial
    /\ token = "t1"
    /\ location = "/"
    /\ net = EmptyBag
    /\ rejection = Null
    /\ logoutPending = 0
    /\ nextUuid = 0
    /\ lastMe = "none"
    /\ fetchOrder = <<>>
    /\ latestFetch = "none"
    /\ toggles = NoToggles
    /\ ev = [op |-> "init"]

NextDocument ==
    \/ \E documents \in DocumentLists : SetDocuments(documents)
    \/ \E documentIds \in Selections : SetSelectedDocuments(documentIds)
    \/ \E d \in {Document("d1"), Null} : SetCurrentDocument(d)
    \/ \E id \in PickedIds : ToggleDocumentSelection(id) /\ NoToggle
    \/ FetchDocuments
    \/ \E documents \in DocumentLists : FetchDocumentsOk(documents)
    \/ \E f \in DocFailures : FetchDocumentsFail(f)
    \/ UploadDocument
    \/ \E d \in Documents : UploadDocumentOk(d)
    \/ \E f \in DocFailures : UploadDocumentFail(f)
    \/ \E id \in PickedIds : DeleteDocument(id)
    \/ \E id \in PickedIds : DeleteDocumentOk(id)
    \/ \E id \in PickedIds, f \in DocFailures : DeleteDocumentFail(id, f)

SpecDocument == InitDocument /\ [][NextDocument]_vars

\* The count of toggleDocumentSelection calls per id
Toggled(documentId) ==
    /\ toggles[documentId] < MaxToggles
    /\ toggles' = [toggles EXCEPT ![documentId] = @ + 1]

\* Runs of toggleDocumentSelection calls alone, from the initial state
NextToggle ==
    \E id \in DocumentIds : ToggleDocumentSelection(id) /\ Toggled(id)

SpecToggle == InitDocument /\ [][NextToggle]_vars

-----------------------------------------------------------------------------
(* The Chat store and the Document store side by side: the actions that
   fetch and delete, on one chat and one document *)

NextStores ==
    \/ \E chats \in ChatLists : SetChats(chats)
    \/ FetchChats
    \/ \E chats \in ChatLists : FetchChatsOk(chats)
    \/ \E f \in DocFailures : FetchChatsFail(f)
    \/ FetchChat("c1") /\ NoFetch
    \/ \E messages \in Transcripts("c1") : FetchChatOk("c1", messages) /\ NoFetch
    \/ \E f \in DocFailures : FetchChatFail("c1", f) /\ NoFetch
    \/ DeleteChat("c1")
    \/ DeleteChatOk("c1")
    \/ \E f \in DocFailures : DeleteChatFail("c1", f)
    \/ SetSelectedDocuments(<<"d2", "d1">>)
    \/ SetCurrentDocument(Document("d1"))
    \/ FetchDocuments
    \/ \E documents \in DocumentLists : FetchDocumentsOk(documents)
    \/ \E f \in DocFailures : FetchDocumentsFail(f)
    \/ DeleteDocument("d1")
    \/ DeleteDocumentOk("d1")
    \/ \E f \in DocFailures : DeleteDocumentFail("d1", f)

SpecStores == InitDocument /\ [][NextStores]_vars

-----------------------------------------------------------------------------
(* The gateway on its own, under any caller *)

\* The operations of ApiService that go through the axios client
GatewayOps ==
    {"signup", "login", "getCurrentUser", "updateCurrentUser",
     "listChats", "createChat", "getChat", "deleteChat", "sendMessage",
     "getChatMessages", "listDocuments", "uploadDocument", "getDocument",
     "updateDocument", "deleteDocument", "reindexDocument",
     "healthCheck", "getApiInfo"}

GatewayCall(api) == [op |-> "gateway", api |-> api]

\* What no step of the gateway touches
GatewayFrame ==
    UNCHANGED <<auth, chat, doc, logoutPending, nextUuid, lastMe,
                fetchOrder, latestFetch, toggles>>

\* A rejection, once the interceptor has returned it, goes through the
\* awaits of the gateway method and of its caller in microtasks: nothing
\* else runs until the caller has it.
Idle == rejection = Null

\* a caller invokes a gateway operation: the request goes out
Request(api) ==
    /\ Idle
    /\ CanIssue
    /\ net' = Issue(GatewayCall(api))
    /\ ev' = [op |-> "request", api |-> api]
    /\ UNCHANGED <<token, location, rejection>>
    /\ GatewayFrame

\* a 2xx response: passes the interceptor unchanged; login stores the token
Fulfilled(api, access_token) ==
    /\ Idle
    /\ Pending(GatewayCall(api))
    /\ net' = Settle(GatewayCall(api))
    /\ token' = IF api = "login" THEN access_token ELSE token
    /\ ev' = [op |-> "fulfilled", api |-> api]
    /\ UNCHANGED <<location, rejection>>
    /\ GatewayFrame

\* an error response (or none): the interceptor's error branch runs and
\* returns the rejection
Rejected(api, f) ==
    /\ Idle
    /\ Pending(GatewayCall(api))
    /\ Interceptor(f)
    /\ net' = Settle(GatewayCall(api))
    /\ rejection' = f
    /\ ev' = [op |-> "rejected", api |-> api]
    /\ GatewayFrame

\* the rejection reaches the caller's catch, which normalizes it
CallerCatch ==
    /\ ~Idle
    /\ rejection' = Null
    /\ ev' = [op |-> "caught", failure |-> rejection,
              error |-> handleError(rejection)]
    /\ UNCHANGED <<token, location, net>>
    /\ GatewayFrame

\* ApiService.logout
ClearToken ==
    /\ Idle
    /\ token' = NullString
    /\ ev' = [op |-> "clearToken"]
    /\ UNCHANGED <<location, net, rejection>>
    /\ GatewayFrame

\* the user leaves the login view again
Navigate ==
    /\ Idle
    /\ location = "/login"
    /\ location' = "/"
    /\ ev' = [op |-> "navigate"]
    /\ UNCHANGED <<token, net, rejection>>
    /\ GatewayFrame

InitGateway ==
    /\ auth = AuthInitial
    /\ chat = ChatInitial
    /\ doc = DocInitial
    /\ token \in Tokens \cup {NullString}
    /\ location = "/"
    /\ net = EmptyBag
    /\ rejection = Null
    /\ logoutPending = 0
    /\ nextUuid = 0
    /\ lastMe = "none"
    /\ fetchOrder = <<>>
    /\ latestFetch = "none"
    /\ toggles = NoToggles
    /\ ev = [op |-> "init"]

NextGateway ==
    \/ \E api \in GatewayOps : Request(api)
    \/ \E api \in GatewayOps, access_token \in Tokens : Fulfilled(api, access_token)
    \/ \E api \in GatewayOps, f \in Failures : Rejected(api, f)
    \/ CallerCatch
    \/ ClearToken
    \/ Navigate

SpecGateway == InitGateway /\ [][NextGateway]_vars

-----------------------------------------------------------------------------
(* handleError on its own *)

\* some call fails with f
Fails(f) ==
    /\ rejection' = f
    /\ ev' = [op |-> "fails"]
    /\ UNCHANGED <<token, location, net>>
    /\ GatewayFrame

\* a catch block calls apiService.handleError(error)
HandleError ==
    /\ ev' = [op |-> "handleError", error |-> rejection,
              returned |-> handleError(rejection)]
    /\ UNCHANGED <<token, location, net, rejection>>
    /\ GatewayFrame

InitHandleError ==
    /\ auth = AuthInitial
    /\ chat = ChatInitial
    /\ doc = DocInitial
    /\ token = "t1"
    /\ location = "/"
    /\ net = EmptyBag
    /\ rejection \in FailureValues
    /\ logoutPending = 0
    /\ nextUuid = 0
    /\ lastMe = "none"
    /\ fetchOrder = <<>>
    /\ latestFetch = "none"
    /\ toggles = NoToggles
    /\ ev = [op |-> "init"]

NextHandleError ==
    \/ \E f \in FailureValues : Fails(f)
    \/ HandleError

SpecHandleError == InitHandleError /\ [][NextHandleError]_vars

-----------------------------------------------------------------------------
(* Properties of the Chat store *)

IsPrefix(s, t) == Len(s) <= Len(t) /\ SubSeq(t, 1, Len(s)) = s

\* C1: every message in `messages` has the chat_id of currentChat, and
\* `messages` is empty when currentChat is null.
MessagesOfCurrentChat ==
    /\ chat.currentChat = Null => chat.messages = <<>>
    /\ chat.currentChat # Null =>
          \A m \in Range(chat.messages) : m.chat_id = chat.currentChat.id

\* C2: the state a successful fetchChat response leaves has the currentChat
\* and the messages of that one response, whatever else is pending.
FetchChatAppliesOneResponse ==
    ev.op = "fetchChatOk" =>
        /\ chat.currentChat = Chat(ev.chatId)
        /\ chat.messages = ev.messages

\* a fetchChat response was applied while a fetchChat of another chat is
\* still pending, over messages of another chat
FetchChatOverlapped ==
    /\ ev.op = "fetchChatOk"
    /\ ev.messages # <<>>
    /\ \E r \in Calls("fetchChat") : r.chatId # ev.chatId

\* C3: once the fetchChat issued last has succeeded and no fetchChat is
\* pending any more, currentChat is the chat that call asked for.
LastFetchChatWins ==
    (ev.op = "fetchChatOk" /\ fetchOrder = <<>> /\ latestFetch \in ChatIds)
        => chat.currentChat = Chat(latestFetch)

SendMessageNeedsChat ==
    [][ (ev'.op = "sendMessage" /\ chat.currentChat = Null)
            => /\ ev'.thrown = "No active chat"
               /\ ~ev'.request
               /\ chat' = chat
               /\ net' = net ]_vars

\* sendMessage has thrown in a store that holds messages and an error
SendMessageThrown ==
    /\ ev.op = "sendMessage"
    /\ ev.thrown = "No active chat"
    /\ chat.currentChat = Null
    /\ chat.messages # <<>>
    /\ chat.error # NullString

\* C6: a failed sendMessage leaves `messages` as it was (no assistant
\* message, the optimistic one kept), records the normalized error, ends
\* loading and rejects with the failure.
SendMessageFailure ==
    [][ ev'.op = "sendMessageFail"
            => /\ chat'.messages = chat.messages
               /\ chat'.error = handleError(ev'.failure)
               /\ chat'.error # NullString
               /\ ~chat'.isLoading
               /\ ev'.rejected ]_vars

\* a sendMessage has failed and its optimistic message is the last one
SendMessageFailed ==
    /\ ev.op = "sendMessageFail"
    /\ chat.messages # <<>>
    /\ chat.messages[Len(chat.messages)] = userMessage(ev.chatId, ev.n)
    /\ chat.error # NullString

\* C14: the step in which deleteChat(id) succeeds removes id from chats; if
\* id is the current chat it sets currentChat to null and messages to the
\* empty list, otherwise it leaves both as they are.
DeleteChatClearsCurrent ==
    [][ ev'.op = "deleteChatOk"
            => /\ chat'.chats = SelectSeq(chat.chats, LAMBDA c : c.id # ev'.chatId)
               /\ Chat(ev'.chatId) \notin Range(chat'.chats)
               /\ IF chat.currentChat = Chat(ev'.chatId)
                  THEN chat'.currentChat = Null /\ chat'.messages = <<>>
                  ELSE /\ chat'.currentChat = chat.currentChat
                       /\ chat'.messages = chat.messages ]_vars

\* the current chat was deleted while another chat stays listed and a call
\* is still pending
CurrentChatDeleted ==
    /\ ev.op = "deleteChatOk"
    /\ ev.wasCurrent
    /\ chat.chats # <<>>
    /\ net # EmptyBag

\* C16: the step in which createNewChat succeeds with chat C leaves
\* chats = [C] followed by the list as it was, currentChat = C and
\* messages = [], and returns C; the step in which it fails leaves chats,
\* currentChat and messages as they were, records the error and rejects.
CreateNewChatPrepends ==
    [][ /\ ev'.op = "createNewChatOk"
            => /\ chat'.chats = <<ev'.returned>> \o chat.chats
               /\ chat'.currentChat = ev'.returned
               /\ chat'.messages = <<>>
        /\ ev'.op = "createNewChatFail"
            => /\ chat'.chats = chat.chats
               /\ chat'.currentChat = chat.currentChat
               /\ chat'.messages = chat.messages
               /\ chat'.error = handleError(ev'.failure)
               /\ chat'.error # NullString
               /\ ev'.rejected ]_vars

\* a second chat was created in front of the first while a call is pending
SecondChatCreated ==
    /\ ev.op = "createNewChatOk"
    /\ Len(chat.chats) = 2
    /\ chat.chats[1] = ev.returned
    /\ net # EmptyBag

\* how often message m occurs in `messages`, and where it occurs first
Occurrences(m) == Cardinality({i \in DOMAIN chat.messages : chat.messages[i] = m})
IndexOf(m) == CHOOSE i \in DOMAIN chat.messages : chat.messages[i] = m

\* every send so far has its user message once, its assistant message at
\* most once, after the user message, and not while the send is pending
SendsInOrder ==
    \A n \in 1..nextUuid :
        LET u == userMessage("c1", n)
            a == assistantMessage("c1", n)
        IN  /\ Occurrences(u) = 1
            /\ Occurrences(a) <= 1
            /\ Occurrences(a) = 1 => IndexOf(u) < IndexOf(a)
            /\ Pending(SendReq("c1", n)) => Occurrences(a) = 0

\* C19: in a run of sendMessage calls alone on one current chat, every step
\* appends to `messages` or leaves it: the call appends its user message, a
\* success appends the one assistant message of that send, behind its user
\* message, a failure appends nothing.
SendsOnlyAppend ==
    [][ /\ IsPrefix(chat.messages, chat'.messages)
        /\ (ev'.op = "sendMessage" /\ ev'.request)
            => chat'.messages =
                 Append(chat.messages, userMessage(ev'.chatId, ev'.n))
        /\ ev'.op = "sendMessageOk"
            => /\ chat'.messages =
                    Append(chat.messages, assistantMessage(ev'.chatId, ev'.n))
               /\ assistantMessage(ev'.chatId, ev'.n) \notin Range(chat.messages)
               /\ userMessage(ev'.chatId, ev'.n) \in Range(chat.messages)
        /\ ev'.op = "sendMessageFail" => chat'.messages = chat.messages
        /\ SendsInOrder' ]_vars

\* two sends overlapped and the reply to the second came back first
RepliesOutOfOrder ==
    chat.messages = <<userMessage("c1", 1), userMessage("c1", 2),
                      assistantMessage("c1", 2), assistantMessage("c1", 1)>>

-----------------------------------------------------------------------------
(* Properties of the Auth store *)

\* C7: no step of login before the user fetch returns changes
\* isAuthenticated, and the step that ends a successful login leaves
\* user = U, isAuthenticated = true and a token stored.
LoginAuthenticatesWithToken ==
    [][ /\ ev'.op \in {"login", "loginPostOk", "loginFail"}
            => auth'.isAuthenticated = auth.isAuthenticated
        /\ ev'.op = "loginOk"
            => /\ auth'.user = ev'.user
               /\ auth'.isAuthenticated
               /\ token' # NullString ]_vars

\* C8: once a login has failed, isAuthenticated is false and the caller got
\* the rejection.
FailedLoginNotAuthenticated ==
    ev.op = "loginFail" => (ev.rejected /\ ~auth.isAuthenticated)

\* C9: isAuthenticated is true exactly when a token is stored and the most
\* recent current-user fetch succeeded.
AuthenticatedIffTokenAndUser ==
    auth.isAuthenticated <=> (isAuthenticated /\ lastMe = "ok")

\* C10: when logout settles it has not rejected, no token is stored, user
\* is null and isAuthenticated is false.
LogoutResets ==
    ev.op = "logoutSettled" =>
        /\ ~ev.rejected
        /\ token = NullString
        /\ auth.user = Null
        /\ ~auth.isAuthenticated

\* a logout has settled while a login or a user fetch is still pending
LogoutDuringRequest ==
    /\ ev.op = "logoutSettled"
    /\ net # EmptyBag
    /\ lastMe = "ok"


\* C11: fetchCurrentUser with no token stored issues no request and leaves
\* user = null, isAuthenticated = false; a fetchCurrentUser whose request
\* fails leaves user = null, isAuthenticated = false, isLoading = false and
\* does not reject.
FetchCurrentUserAnonymous ==
    [][ /\ (ev'.op = "fetchCurrentUser" /\ token = NullString)
            => /\ ~ev'.request
               /\ net' = net
               /\ auth'.user = Null
               /\ ~auth'.isAuthenticated
        /\ (ev'.op = "fetchCurrentUser" /\ ev'.request) => token # NullString
        /\ ev'.op = "fetchCurrentUserFail"
            => /\ auth' = [user |-> Null, isAuthenticated |-> FALSE,
                           isLoading |-> FALSE]
               /\ ~ev'.rejected ]_vars

\* a user fetch has failed, and a later fetchCurrentUser found no token and
\* returned without a request while another call was pending
FetchCurrentUserShortCircuited ==
    /\ ev.op = "fetchCurrentUser"
    /\ ~ev.request
    /\ token = NullString
    /\ lastMe = "failed"
    /\ net # EmptyBag


\* C21: in every state of the Auth store, over any interleaving of setUser,
\* login, logout, fetchCurrentUser and restarts, isAuthenticated = true
\* implies that user is not null.
AuthenticatedHasUser ==
    auth.isAuthenticated => auth.user # Null

\* the store is authenticated without a token, with a logout suspended and
\* a request pending
AuthenticatedUnderLogout ==
    /\ auth.isAuthenticated
    /\ auth.user # Null
    /\ token = NullString
    /\ logoutPending > 0
    /\ net # EmptyBag

-----------------------------------------------------------------------------
(* Properties of the gateway *)

\* C18: handleError does not throw and returns one message string: the
\* server's detail for an axios error whose response body has a non-empty
\* one, 'An error occurred' for an axios error without (no response, no
\* body, no detail or an empty one), 'An unexpected error occurred' for a
\* value that is not an axios error.
HandleErrorNormalizes ==
    ev.op = "handleError" =>
        LET e == ev.error
            withDetail == /\ e.status # 0
                          /\ e.data = "object"
                          /\ e.detail \notin {Undefined, ""}
        IN  /\ ev.returned \notin {TypeError, Undefined, NullString, ""}
            /\ (e.axios /\ withDetail) => ev.returned = e.detail
            /\ (e.axios /\ ~withDetail) => ev.returned = "An error occurred"
            /\ ~e.axios => ev.returned = "An unexpected error occurred"

\* handleError was handed an axios error that has no response
HandledNoResponse ==
    /\ ev.op = "handleError"
    /\ ev.error.axios
    /\ ev.error.status = 0
    /\ ev.returned = "An error occurred"

\* C12: while a 401 rejection of any gateway operation is on its way to the
\* caller, the token is already cleared and the page already sent to the
\* login view, and the caller's catch finds them so and does not undo them.
UnauthorizedPreempts ==
    [][ /\ (rejection' # Null /\ rejection'.status = 401)
            => (token' = NullString /\ location' = "/login")
        /\ (ev'.op = "caught" /\ rejection.status = 401)
            => /\ token = NullString /\ location = "/login"
               /\ token' = token /\ location' = location ]_vars

\* a document operation was answered 401 while another call is pending: its
\* rejection has passed the interceptor and has not reached the caller
UnauthorizedInFlight ==
    /\ rejection # Null
    /\ rejection.status = 401
    /\ ev.op = "rejected"
    /\ ev.api = "deleteDocument"
    /\ net # EmptyBag


-----------------------------------------------------------------------------
(* Properties of the Document store *)

\* C13: after any run of toggleDocumentSelection calls from the initial
\* state, an id is in selectedDocuments exactly when it was toggled an odd
\* number of times.
ToggleParity ==
    \A id \in DocumentIds :
        (id \in Range(doc.selectedDocuments)) <=> (toggles[id] % 2 = 1)

\* d1 was toggled three times and d2 twice with toggles of d3 in between
ToggledRepeatedly ==
    /\ toggles["d1"] = 3
    /\ toggles["d2"] = 2
    /\ toggles["d3"] = 1
    /\ doc.selectedDocuments = <<"d3", "d1">>


\* C15: the step in which deleteDocument(id) succeeds leaves id out of
\* documents and of selectedDocuments, keeps every other document and
\* selected id in its order, and sets currentDocument to null if it was the
\* document with that id and leaves it otherwise.
DeleteDocumentRemoves ==
    [][ ev'.op = "deleteDocumentOk"
            => /\ doc'.documents =
                    SelectSeq(doc.documents, LAMBDA d : d.id # ev'.documentId)
               /\ doc'.selectedDocuments =
                    SelectSeq(doc.selectedDocuments, LAMBDA id : id # ev'.documentId)
               /\ Document(ev'.documentId) \notin Range(doc'.documents)
               /\ ev'.documentId \notin Range(doc'.selectedDocuments)
               /\ doc'.currentDocument =
                    IF doc.currentDocument = Document(ev'.documentId)
                    THEN Null
                    ELSE doc.currentDocument ]_vars

\* the current document, which was selected, was deleted; another document
\* stays listed and another id stays selected
CurrentDocumentDeleted ==
    /\ ev.op = "deleteDocumentOk"
    /\ ev.wasCurrent
    /\ ev.wasSelected
    /\ doc.documents # <<>>
    /\ doc.selectedDocuments # <<>>


-----------------------------------------------------------------------------
(* Properties of both stores *)

\* C17: the step in which the request of fetchChats, fetchChat, deleteChat,
\* fetchDocuments or deleteDocument fails leaves the data fields of both
\* stores as they were, sets the store's error to the normalized message,
\* which is not null, and its isLoading to false, and does not reject.
FailureKeepsData ==
    [][ /\ ev'.op \in {"fetchChatsFail", "fetchChatFail", "deleteChatFail",
                       "fetchDocumentsFail", "deleteDocumentFail"}
            => /\ chat'.chats = chat.chats
               /\ chat'.currentChat = chat.currentChat
               /\ chat'.messages = chat.messages
               /\ doc'.documents = doc.documents
               /\ doc'.selectedDocuments = doc.selectedDocuments
               /\ doc'.currentDocument = doc.currentDocument
               /\ ~ev'.rejected
        /\ ev'.op \in {"fetchChatsFail", "fetchChatFail", "deleteChatFail"}
            => /\ chat'.error = handleError(ev'.failure)
               /\ chat'.error # NullString
               /\ ~chat'.isLoading
        /\ ev'.op \in {"fetchDocumentsFail", "deleteDocumentFail"}
            => /\ doc'.error = handleError(ev'.failure)
               /\ doc'.error # NullString
               /\ ~doc'.isLoading ]_vars

\* a document request has failed in stores that hold chats, a current chat
\* with messages, documents, a selection and a current document
FailedWithData ==
    /\ ev.op \in {"fetchDocumentsFail", "deleteDocumentFail"}
    /\ doc.error = "An error occurred"
    /\ doc.documents # <<>>
    /\ doc.selectedDocuments # <<>>
    /\ doc.currentDocument # Null
    /\ chat.chats # <<>>
    /\ chat.currentChat # Null
    /\ chat.messages # <<>>
    /\ chat.error = "Not authenticated"


\* the async actions of each store, by the name of their pending call
ChatOps == {"fetchChats", "fetchChat", "createNewChat", "deleteChat", "sendMessage"}
DocOps == {"fetchDocuments", "uploadDocument", "deleteDocument"}

\* C20: a store is loading in every state in which one of its async actions
\* awaits its response.
LoadingWhilePending ==
    /\ (\E op \in ChatOps : Calls(op) # {}) => chat.isLoading
    /\ (\E op \in DocOps : Calls(op) # {}) => doc.isLoading

====
